---- MODULE Spec2Model ----
(***************************************************************************)
(* Accessibility dashboard: the site-data aggregation of SiteDataService   *)
(* and SiteListComponent, and the severity scorer SiteComponent.siteStatus.*)
(*                                                                         *)
(* JavaScript runs every callback to completion, so each callback (the     *)
(* component's ngOnInit, the promise's then-callback, the subscriber of    *)
(* one HTTP response) is one atomic action.  HTTP responses arrive in any  *)
(* order, each in a later turn of the event loop.                          *)
(***************************************************************************)
EXTENDS Integers, Sequences, FiniteSets, TLC

(***************************************************************************)
(* Bounds                                                                  *)
(***************************************************************************)
\* longest violation list handed to siteStatus with its impacts in any order
MaxMixed == 4
\* longest violation list handed to siteStatus with its violations grouped by
\* impact (7 criticals reach the clamp)
MaxLen == 7
\* longest manifest
MaxSites == 2
\* longest scan history the data service returns for a site
MaxScans == 2
\* number of SiteListComponent instances created on one SiteDataService
MaxLoads == 2

(***************************************************************************)
(* JavaScript numbers: an integer or NaN (undefined + 1 is NaN).           *)
(***************************************************************************)
Num(n) == [nan |-> FALSE, v |-> n]

NaN == [nan |-> TRUE, v |-> 0]

\* a + b
Add(a, b) == IF a.nan \/ b.nan THEN NaN ELSE Num(a.v + b.v)

\* k * a for a literal k
Mul(k, a) == IF a.nan THEN NaN ELSE Num(k * a.v)

\* a >= k for a literal k; every comparison with NaN is false
Ge(a, k) == (~a.nan) /\ a.v >= k

\* a < k for a literal k
Lt(a, k) == (~a.nan) /\ a.v < k

(***************************************************************************)
(* Dates.  last_updated arrives as a number of epoch seconds; convertDate  *)
(* makes a Date object, held here as its milliseconds since the epoch.     *)
(***************************************************************************)
EpochSeconds(n) == [type |-> "number", v |-> n]

\* convertDate taking the seconds for milliseconds
convertDateUnscaled(pythonDate) == [type |-> "Date", v |-> pythonDate.v]

\* new Date(pythonDate * 1000); a Date operand is coerced to its milliseconds
convertDate(pythonDate) == [type |-> "Date", v |-> pythonDate.v * 1000]

(***************************************************************************)
(* Violations and the severity scorer                                      *)
(***************************************************************************)
\* the impact values of the scanner, and one value outside the enumeration
ImpactValues == {"critical", "serious", "moderate", "minor", "trivial"}

\* a violation, reduced to the field siteStatus reads
Violation(impact) == [impact |-> impact]

Violations == {Violation(i) : i \in ImpactValues}

\* the counter object literal of siteStatus
counter == [k \in {"critical", "serious", "moderate", "minor"} |-> Num(0)]

\* Increment with a default bucket: an unknown impact counted as minor
IncrementAsMinor(c, impact) ==
  IF impact \in DOMAIN c
  THEN [c EXCEPT ![impact] = Add(@, Num(1))]
  ELSE [c EXCEPT !["minor"] = Add(@, Num(1))]

\* counter[impact] += 1: a missing key reads undefined, and the sum is NaN
Increment(c, impact) ==
  IF impact \in DOMAIN c
  THEN [c EXCEPT ![impact] = Add(@, Num(1))]
  ELSE [k \in DOMAIN c \cup {impact} |-> IF k = impact THEN NaN ELSE c[k]]

\* violations.forEach(violation => { counter[violation['impact']] += 1 }),
\* from the i-th violation on
RECURSIVE forEachViolation(_, _, _)
forEachViolation(violations, i, c) ==
  IF i > Len(violations) THEN c
  ELSE forEachViolation(violations, i + 1, Increment(c, violations[i].impact))

\* WeightedSum with the weight of serious mistyped as 10
WeightedSumTen(c) ==
  Add(Add(Add(Mul(15, c["critical"]), Mul(10, c["serious"])),
          Mul(5, c["moderate"])), Mul(1, c["minor"]))

\* WeightedSum with the weights of serious and moderate exchanged
WeightedSumSwapped(c) ==
  Add(Add(Add(Mul(15, c["critical"]), Mul(5, c["serious"])),
          Mul(9, c["moderate"])), Mul(1, c["minor"]))

\* 15 * critical + 9 * serious + 5 * moderate + 1 * minor
WeightedSum(c) ==
  Add(Add(Add(Mul(15, c["critical"]), Mul(9, c["serious"])),
          Mul(5, c["moderate"])), Mul(1, c["minor"]))

\* Clamp left out
ClampOff(s) == s

\* score = (score >= 100) ? 100 : score
Clamp(s) == IF Ge(s, 100) THEN Num(100) ELSE s

\* the local variable score of siteStatus when the thresholds are applied
score(violations) == Clamp(WeightedSum(forEachViolation(violations, 1, counter)))

\* Category with > 60 for >= 60
CategoryStrict(s) ==
  IF (~s.nan) /\ s.v > 60 THEN "moz-danger"
  ELSE IF Lt(s, 60) /\ Ge(s, 20) THEN "moz-warning"
  ELSE "moz-success"

\* the class chosen by the thresholds
Category(s) ==
  IF Ge(s, 60) THEN "moz-danger"
  ELSE IF Lt(s, 60) /\ Ge(s, 20) THEN "moz-warning"
  ELSE "moz-success"

\* siteStatus returning info for a score of 0 instead of an empty list
siteStatusInfoOnZero(s) ==
  LET sc == score(s.data.violations)
  IN IF sc = Num(0)
     THEN [class |-> "badge-info", score |-> <<sc>>]
     ELSE [class |-> Category(sc), score |-> <<sc>>]

\* siteStatus without the early return for an empty list
siteStatusNoInfo(s) ==
  LET sc == score(s.data.violations)
  IN [class |-> Category(sc), score |-> <<sc>>]

\* SiteComponent.siteStatus(site): the class returned, and the local score
\* (the other versions of the component differ in the class names only)
\* (<<>> when the function returns before assigning it)
siteStatus(s) ==
  LET violations == s.data.violations
  IN IF Len(violations) = 0
     THEN [class |-> "badge-info", score |-> <<>>]
     ELSE LET sc == score(violations)
          IN [class |-> Category(sc), score |-> <<sc>>]

(***************************************************************************)
(* The remote services                                                     *)
(***************************************************************************)
\* the descriptors a manifest (assets/sites.json) can list
Descriptor(name, url) == [name |-> name, url |-> url]

Descriptors == {Descriptor("a", "u1"), Descriptor("b", "u2")}

Names == {d.name : d \in Descriptors}

\* every sequence over S of length at most n
SeqsUpTo(S, n) == UNION {[1..k -> S] : k \in 0..n}

\* the contents the manifest asset can have
ManifestLists == SeqsUpTo(Descriptors, MaxSites)

\* one scan of the scan-history endpoint: {violations, last_updated}
Scan(violations, seconds) ==
  [violations |-> violations, last_updated |-> EpochSeconds(seconds)]

Scans == {Scan(<<Violation("critical")>>, 1000), Scan(<<>>, 2000)}

\* the answers of the scan-history endpoint for one site, the empty array
\* included
ScanSeqs == SeqsUpTo(Scans, MaxScans)

\* the answers with at most one scan
ShortScanSeqs == SeqsUpTo(Scans, 1)

Loads == 1..MaxLoads

VARIABLES
  manifest,     \* the content of the static asset assets/sites.json
  remote,       \* the scan history the data service holds per site name
  listPromise,  \* per component: the promise of SiteDataService.getSiteList()
  loadPromise,  \* per component: the promise SiteListComponent.getSiteData() returned
  unhandled,    \* components whose then-chain was rejected with no handler
  siteList,     \* per component: the argument of SiteDataService.getSiteData
  heap,         \* the arrays made by "const sites = []", by allocation order
  sitesLocal,   \* per component: the array its getSiteData call allocated (0: none)
  _siteData,    \* SiteDataService._siteData: an array of heap, 0 when undefined
  sites,        \* per component: SiteListComponent.sites, 0 when undefined
  observer,     \* per component: what the Observable sent to its subscriber
  fetch,        \* per component: the state of each per-site GET it issued
  uncaught,     \* errors thrown out of response callbacks
  requests,     \* per component: the URLs of the GETs issued for it, in order
  processed,    \* per component: the per-site GETs whose answer reached the
                \* subscriber, in the order the subscriber ran
  site,         \* SiteComponent.site, the input of the scorer
  status,       \* the class siteStatus(site) returned to the template
  scored,       \* siteStatus's local score at its return, <<>> if never assigned
  violation,    \* ViolationComponent.violation, the violation it shows
  initialised   \* whether ViolationComponent.ngOnInit has run

pipeVars == <<manifest, remote, listPromise, loadPromise, unhandled, siteList, heap,
              sitesLocal, _siteData, sites, observer, fetch, uncaught, requests,
              processed>>

scoreVars == <<site, status, scored>>

violationVars == <<violation, initialised>>

vars == <<manifest, remote, listPromise, loadPromise, unhandled, siteList, heap,
          sitesLocal, _siteData, sites, observer, fetch, uncaught, requests,
          processed, site, status, scored, violation, initialised>>

\* new Site(name, url, data, history)
Site(name, url, data, history) ==
  [name |-> name, url |-> url, data |-> data, history |-> history]

\* the subscriber state of a fresh Observable
NoEvents == [next |-> <<>>, complete |-> FALSE, error |-> FALSE]

(***************************************************************************)
(* SiteDataService                                                         *)
(***************************************************************************)
siteListURL == "../assets/sites.json"

siteDataURL == "https://webaccessibility.rocks/"

\* the URL of the manifest, as <<base, path>>
ListURL == <<siteListURL, "">>

\* this.siteDataURL + element['name']
DataURL(element) == <<siteDataURL, element.name>>

\* get subscribed twice: two GETs
getTwice(reqs, url) == Append(Append(reqs, url), url)

\* this.http.get(url), subscribed once (toPromise() or subscribe()): one GET
get(reqs, url) == Append(reqs, url)

\* forEachSite leaving the loop after its first element
forEachSiteFirst(list) ==
  [i \in 1..(IF Len(list) = 0 THEN 0 ELSE 1) |-> DataURL(list[i])]

\* siteList.forEach(element => this.http.get(...).subscribe(...)): the GETs
\* of one pass, all issued in the one run of the loop
forEachSite(list) == [i \in 1..Len(list) |-> DataURL(list[i])]

\* elementOf with one variable shared by all callbacks: the last element
elementOfLast(list, i) == list[Len(list)]

\* the element the i-th forEach callback, and the subscriber it creates,
\* has as its parameter
elementOf(list, i) == list[i]

\* push run twice for one response
pushTwice(arr, s) == Append(Append(arr, s), s)

\* push that adds nothing
pushDropped(arr, s) == arr

\* push putting the Site in front (unshift)
unshift(arr, s) == <<s>> \o arr

\* push overwriting the array
pushReplace(arr, s) == <<s>>

\* sites.push(site)
push(arr, s) == Append(arr, s)

\* cached asking for a non-empty array
cachedNonEmpty(sd) == sd # 0 /\ Len(heap[sd]) > 0

\* cached without the cache: every call fetches again
cachedNever(sd) == FALSE

\* if (this._siteData): an array, even an empty one, is truthy
cached(sd) == sd # 0

\* reduce taking the first element, results[0]
reduceFirst(results) ==
  LET current == [results[1] EXCEPT !.last_updated = convertDate(@)]
  IN [data |-> current, results |-> [results EXCEPT ![1] = current]]

\* const current = results[results.length - 1];
\* current['last_updated'] = this.convertDate(current['last_updated']);
\* current is an element of results, so the assignment shows in results too
reduce(results) ==
  LET n == Len(results)
      current == [results[n] EXCEPT !.last_updated = convertDate(@)]
  IN [data |-> current, results |-> [results EXCEPT ![n] = current]]

\* the subscriber of one per-site GET, for a non-empty results array
onResults(element, results) ==
  LET r == reduce(results)
  IN Site(element.name, element.url, r.data, r.results)

\* a subscriber that pushes a Site without scans for an empty results array
pushWithoutData(arr, element) ==
  Append(arr, Site(element.name, element.url, Scan(<<>>, 0), <<>>))

\* the subscriber of one per-site GET, for an empty results array: current is
\* undefined, the assignment to current['last_updated'] throws and the
\* callback ends before sites.push, the array is as it was
throwBeforePush(arr, element) == arr

PipeInit(m, r) ==
  /\ manifest = m
  /\ remote = r
  /\ listPromise = [c \in Loads |-> "none"]
  /\ loadPromise = [c \in Loads |-> "none"]
  /\ unhandled = {}
  /\ siteList = [c \in Loads |-> <<>>]
  /\ heap = <<>>
  /\ sitesLocal = [c \in Loads |-> 0]
  /\ _siteData = 0
  /\ sites = [c \in Loads |-> 0]
  /\ observer = [c \in Loads |-> NoEvents]
  /\ fetch = [c \in Loads |-> <<>>]
  /\ uncaught = {}
  /\ requests = [c \in Loads |-> <<>>]
  /\ processed = [c \in Loads |-> <<>>]

NoSite == Site("", "", Scan(<<>>, 0), <<>>)

\* no violation is shown
NoViolation == [nodes |-> <<>>]

\* any manifest, every site with at most one scan
Init ==
  /\ \E m \in ManifestLists : \E r \in [Names -> ShortScanSeqs] : PipeInit(m, r)
  /\ site = NoSite
  /\ status = "unrendered"
  /\ scored = <<>>
  /\ violation = NoViolation
  /\ initialised = FALSE

\* SiteListComponent.ngOnInit -> getSiteData(): getSiteList() issues the GET
\* of the manifest (components are numbered in the order of their creation);
\* the then-chain is neither awaited nor returned, so the async function's
\* promise is fulfilled when its body ends
ngOnInit(c) ==
  /\ listPromise[c] = "none"
  /\ \A b \in Loads : b < c => listPromise[b] # "none"
  /\ listPromise' = [listPromise EXCEPT ![c] = "pending"]
  /\ loadPromise' = [loadPromise EXCEPT ![c] = "fulfilled"]
  /\ requests' = [requests EXCEPT ![c] = get(@, ListURL)]
  /\ UNCHANGED <<manifest, remote, unhandled, siteList, heap, sitesLocal, _siteData,
                 sites, observer, fetch, uncaught, processed, site, status, scored, violationVars>>

\* the GET of the manifest fails: toPromise() rejects, the await rethrows,
\* getSiteList's promise is rejected; then() has no rejection handler and
\* nothing is chained after it
getSiteListFails(c) ==
  /\ listPromise[c] = "pending"
  /\ listPromise' = [listPromise EXCEPT ![c] = "rejected"]
  /\ unhandled' = unhandled \cup {c}
  /\ UNCHANGED <<manifest, remote, loadPromise, siteList, heap, sitesLocal, _siteData,
                 sites, observer, fetch, uncaught, requests, processed, site,
                 status, scored, violationVars>>

\* the GET of the manifest answers: the then-callback calls
\* SiteDataService.getSiteData(list) and subscribes with data => this.sites = data
getSiteData(c) ==
  /\ listPromise[c] = "pending"
  /\ listPromise' = [listPromise EXCEPT ![c] = "fulfilled"]
  /\ siteList' = [siteList EXCEPT ![c] = manifest]
  /\ LET id == Len(heap) + 1
     IN /\ heap' = Append(heap, <<>>)
        /\ sitesLocal' = [sitesLocal EXCEPT ![c] = id]
        /\ IF cached(_siteData)
           THEN /\ observer' = [observer EXCEPT ![c] =
                      [next |-> <<_siteData>>, complete |-> TRUE, error |-> FALSE]]
                /\ sites' = [sites EXCEPT ![c] = _siteData]
                /\ UNCHANGED <<_siteData, fetch, requests>>
           ELSE /\ requests' = [requests EXCEPT ![c] = @ \o forEachSite(manifest)]
                /\ fetch' = [fetch EXCEPT ![c] =
                      [i \in 1..Len(forEachSite(manifest)) |-> "pending"]]
                /\ _siteData' = id
                /\ observer' = [observer EXCEPT ![c] =
                      [next |-> <<id>>, complete |-> TRUE, error |-> FALSE]]
                /\ sites' = [sites EXCEPT ![c] = id]
  /\ UNCHANGED <<manifest, remote, loadPromise, unhandled, uncaught, processed,
                 site, status, scored, violationVars>>

\* one per-site GET answers with the site's scan array; an empty array makes
\* current undefined and the assignment to current['last_updated'] throws
subscribeNext(c, i) ==
  /\ i \in 1..Len(fetch[c])
  /\ fetch[c][i] = "pending"
  /\ fetch' = [fetch EXCEPT ![c][i] = "ok"]
  /\ processed' = [processed EXCEPT ![c] = Append(@, i)]
  /\ LET element == elementOf(siteList[c], i)
         results == remote[siteList[c][i].name]
         arr == sitesLocal[c]
     IN IF Len(results) = 0
        THEN /\ uncaught' = uncaught \cup
                   {[load |-> c, index |-> i, error |-> "TypeError"]}
             /\ heap' = [heap EXCEPT ![arr] = throwBeforePush(@, element)]
        ELSE /\ heap' = [heap EXCEPT ![arr] = push(@, onResults(element, results))]
             /\ UNCHANGED uncaught
  /\ UNCHANGED <<manifest, remote, listPromise, loadPromise, unhandled, siteList,
                 sitesLocal, _siteData, sites, observer, requests, site, status,
                 scored, violationVars>>

\* one per-site GET fails: subscribe() was given no error callback, so the
\* error is thrown out of the event-loop turn
subscribeError(c, i) ==
  /\ i \in 1..Len(fetch[c])
  /\ fetch[c][i] = "pending"
  /\ fetch' = [fetch EXCEPT ![c][i] = "failed"]
  /\ uncaught' = uncaught \cup
        {[load |-> c, index |-> i, error |-> "HttpErrorResponse"]}
  /\ UNCHANGED <<manifest, remote, listPromise, loadPromise, unhandled, siteList, heap,
                 sitesLocal, _siteData, sites, observer, requests, processed, site,
                 status, scored, violationVars>>

\* change detection renders the k-th Site of component c's list: the template
\* of its SiteComponent evaluates siteStatus(site)
renderSite(c, k) ==
  /\ sites[c] # 0
  /\ k \in 1..Len(heap[sites[c]])
  /\ site' = heap[sites[c]][k]
  /\ LET r == siteStatus(site')
     IN status' = r.class /\ scored' = r.score
  /\ UNCHANGED <<pipeVars, violationVars>>

Next ==
  \/ \E c \in Loads : ngOnInit(c)
  \/ \E c \in Loads : getSiteListFails(c)
  \/ \E c \in Loads : getSiteData(c)
  \/ \E c \in Loads : \E i \in 1..MaxSites : subscribeNext(c, i)
  \/ \E c \in Loads : \E i \in 1..MaxSites : subscribeError(c, i)
  \/ \E c \in Loads : \E k \in 1..MaxSites : renderSite(c, k)

Spec == Init /\ [][Next]_vars

\* every per-site GET that was issued gets an answer or an error, and the
\* event loop runs the subscriber's callback for it
ResponsesArrive ==
  \A c \in Loads : \A i \in 1..MaxSites :
    WF_vars(subscribeNext(c, i) \/ subscribeError(c, i))

\* the scenario of the specification: the only scan of site a has one
\* critical violation, the only scan of site b has none
ScenarioRemote ==
  [n \in Names |-> IF n = "a" THEN <<Scan(<<Violation("critical")>>, 1000)>>
                               ELSE <<Scan(<<>>, 2000)>>]

\* any manifest, every site with exactly one scan
LiveInit ==
  /\ \E m \in ManifestLists : PipeInit(m, ScenarioRemote)
  /\ site = NoSite
  /\ status = "unrendered"
  /\ scored = <<>>
  /\ violation = NoViolation
  /\ initialised = FALSE

LiveSpec == LiveInit /\ [][Next]_vars /\ ResponsesArrive

\* the lists a later deployment can put in the place of assets/sites.json
DeployLists == SeqsUpTo(Descriptors, 1)

\* the asset assets/sites.json is replaced while the application runs, so a
\* later call of getSiteData is given another list than the first
deploy(m) ==
  /\ _siteData # 0
  /\ m # manifest
  /\ manifest' = m
  /\ UNCHANGED <<remote, listPromise, loadPromise, unhandled, siteList, heap,
                 sitesLocal, _siteData, sites, observer, fetch, uncaught, requests,
                 processed, site, status, scored, violationVars>>

CacheNext ==
  \/ Next
  \/ \E m \in DeployLists : deploy(m)

CacheSpec == LiveInit /\ [][CacheNext]_vars

\* one site in the manifest, every site with a history of up to MaxScans scans
HistoryInit ==
  /\ \E d \in Descriptors : \E r \in [Names -> ScanSeqs] : PipeInit(<<d>>, r)
  /\ site = NoSite
  /\ status = "unrendered"
  /\ scored = <<>>
  /\ violation = NoViolation
  /\ initialised = FALSE

HistorySpec == HistoryInit /\ [][Next]_vars

(***************************************************************************)
(* The scorer on its own: SiteComponent is given a site whose latest scan  *)
(* has any violation list, and its template calls siteStatus(site).        *)
(***************************************************************************)
\* a list of n violations of one impact
Repeat(impact, n) == [i \in 1..n |-> Violation(impact)]

\* the violations grouped by impact, cnt[k] of the k-th impact
Grouped(cnt) ==
  Repeat("critical", cnt[1]) \o Repeat("serious", cnt[2])
    \o Repeat("moderate", cnt[3]) \o Repeat("minor", cnt[4])
    \o Repeat("trivial", cnt[5])

GroupedSeqs ==
  {Grouped(cnt) : cnt \in {c \in [1..5 -> 0..MaxLen] :
                              c[1] + c[2] + c[3] + c[4] + c[5] <= MaxLen}}

\* the violation lists given to siteStatus: every short list, and the
\* longer ones up to the order of their violations
ViolationSeqs == SeqsUpTo(Violations, MaxMixed) \cup GroupedSeqs

ScoreInit ==
  /\ PipeInit(<<>>, [n \in Names |-> <<>>])
  /\ \E vs \in ViolationSeqs :
       site = Site("a", "u1", [violations |-> vs, last_updated |-> convertDate(EpochSeconds(1000))], <<>>)
  /\ status = "unrendered"
  /\ scored = <<>>
  /\ violation = NoViolation
  /\ initialised = FALSE

\* render taking the violations off the list as it counts them
\* (violations.pop() in the loop)
renderConsuming ==
  /\ status = "unrendered"
  /\ LET r == siteStatus(site)
     IN status' = r.class /\ scored' = r.score
  /\ site' = [site EXCEPT !.data.violations = <<>>]
  /\ UNCHANGED <<pipeVars, violationVars>>

\* the template evaluates siteStatus(site)
render ==
  /\ status = "unrendered"
  /\ LET r == siteStatus(site)
     IN status' = r.class /\ scored' = r.score
  /\ UNCHANGED <<pipeVars, site, violationVars>>

\* a later change detection evaluates siteStatus(site) again: counter is a
\* local of the call, made anew, and nothing is kept from the call before
renderAgain ==
  /\ status # "unrendered"
  /\ LET r == siteStatus(site)
     IN status' = r.class /\ scored' = r.score
  /\ UNCHANGED <<pipeVars, site, violationVars>>

ScoreNext == render \/ renderAgain

ScoreSpec == ScoreInit /\ [][ScoreNext]_vars

(***************************************************************************)
(* ViolationComponent                                                      *)
(***************************************************************************)
MaxAny == 2

MaxNodes == 2

\* an element of the relatedNodes of a check result of the scan
Related(target, html, xpath) == [target |-> target, html |-> html, xpath |-> xpath]

\* the relatedNodes arrays a check result can have
RelatedLists ==
  {<<>>, <<Related("t1", "h1", "x1")>>, <<Related("t2", "h2", "x2")>>}

\* the 'any' arrays a node can have
AnyLists == SeqsUpTo({[relatedNodes |-> r] : r \in RelatedLists}, MaxAny)

\* the nodes arrays of a violation; a node of the scan has no relatedNodes of
\* its own (<<>>: the property is undefined, <<list>>: it holds list)
NodeLists == SeqsUpTo({[any |-> a, relatedNodes |-> <<>>] : a \in AnyLists}, MaxNodes)

\* any['relatedNodes'].forEach(related => relatedNodes.push({'target':
\* related['target'], 'html': related['html']}))
forEachRelated(related) ==
  [k \in 1..Len(related) |-> [target |-> related[k].target, html |-> related[k].html]]

RECURSIVE forEachAnyShared(_, _)

\* forEachAny with one relatedNodes array for all entries of 'any'
forEachAnyShared(node, j) ==
  IF j > Len(node.any) THEN node
  ELSE LET before == IF node.relatedNodes = <<>> THEN <<>> ELSE node.relatedNodes[1]
           relatedNodes == before \o forEachRelated(node.any[j].relatedNodes)
       IN forEachAnyShared([node EXCEPT !.relatedNodes = <<relatedNodes>>], j + 1)

RECURSIVE forEachAny(_, _)

\* node['any'].forEach(any => { const relatedNodes = []; ...;
\* node['relatedNodes'] = relatedNodes; }), from the j-th entry on
forEachAny(node, j) ==
  IF j > Len(node.any) THEN node
  ELSE LET relatedNodes == forEachRelated(node.any[j].relatedNodes)
       IN forEachAny([node EXCEPT !.relatedNodes = <<relatedNodes>>], j + 1)

\* a violation with any nodes is given to the component
ViolationInit ==
  /\ PipeInit(<<>>, [n \in Names |-> <<>>])
  /\ site = NoSite
  /\ status = "unrendered"
  /\ scored = <<>>
  /\ \E nodes \in NodeLists : violation = [nodes |-> nodes]
  /\ initialised = FALSE

\* ViolationComponent.ngOnInit
ViolationComponent_ngOnInit ==
  /\ ~initialised
  /\ initialised' = TRUE
  /\ violation' = [violation EXCEPT !.nodes =
        [n \in 1..Len(violation.nodes) |-> forEachAny(violation.nodes[n], 1)]]
  /\ UNCHANGED <<pipeVars, scoreVars>>

ViolationNext == ViolationComponent_ngOnInit

ViolationSpec == ViolationInit /\ [][ViolationNext]_vars

(***************************************************************************)
(* Properties of the scorer (checked under ScoreSpec)                      *)
(***************************************************************************)
rendered == status # "unrendered"

\* the violation list siteStatus was given
input == site.data.violations

\* the number of violations of vs with the given impact
CountOf(vs, impact) == Cardinality({i \in 1..Len(vs) : vs[i].impact = impact})

Min(a, b) == IF a <= b THEN a ELSE b

\* C4: for every violation list, unrecognized impacts included, the score
\* siteStatus computes is an integer between 0 and 100 (only for the empty
\* list does it return before computing one).
C4_ScoreInRange ==
  rendered =>
    /\ Len(input) > 0 => Len(scored) = 1
    /\ \A k \in 1..Len(scored) : (~scored[k].nan) /\ scored[k].v \in 0..100

\* a list with an unrecognized impact and six criticals: score 90
C4_Witness ==
  /\ rendered
  /\ CountOf(input, "trivial") = 1
  /\ CountOf(input, "critical") = 6
  /\ scored = <<Num(90)>>

\* C5: the score is min(100, 15*critical + 9*serious + 5*moderate + 1*minor)
\* over the counts per impact; 5 criticals give 75, 7 criticals give 100.
C5_ScoreFormula ==
  rendered =>
    /\ Len(input) > 0 =>
         scored = <<Num(Min(100, 15 * CountOf(input, "critical")
                                 + 9 * CountOf(input, "serious")
                                 + 5 * CountOf(input, "moderate")
                                 + 1 * CountOf(input, "minor")))>>
    /\ (input = Repeat("critical", 5) => scored = <<Num(75)>>)
    /\ (input = Repeat("critical", 7) => scored = <<Num(100)>>)

\* seven criticals: raw 105, clamped to 100
C5_Witness ==
  rendered /\ input = Repeat("critical", 7) /\ scored = <<Num(100)>>
    /\ status = "moz-danger"

\* C6: the category follows the threshold table: an empty list (score 0) is
\* info, a score >= 60 is danger, 20 <= score < 60 is warning, a score < 20
\* of a non-empty list is success; exactly one category is returned.
C6_ThresholdTable ==
  rendered =>
    /\ Len(input) = 0 => status = "badge-info"
    /\ Len(input) > 0 =>
         LET s == scored[1].v
         IN /\ (s >= 60 => status = "moz-danger")
            /\ (20 <= s /\ s < 60 => status = "moz-warning")
            /\ (s < 20 => status = "moz-success")
    /\ status \in {"badge-info", "moz-danger", "moz-warning", "moz-success"}

\* a score on the boundary between warning and danger
C6_Witness == rendered /\ scored = <<Num(60)>> /\ status = "moz-danger"

\* the order of severity of the recognized impacts
Severity(impact) ==
  CASE impact = "minor" -> 1
    [] impact = "moderate" -> 2
    [] impact = "serious" -> 3
    [] impact = "critical" -> 4
    [] OTHER -> 0

Recognized == {"critical", "serious", "moderate", "minor"}

\* per impact, the recognized impacts more severe than it
Worse ==
  [i \in ImpactValues |->
     IF i \in Recognized
     THEN {w \in Recognized : Severity(w) > Severity(i)}
     ELSE {}]

\* C7: replacing the impact of the violation at any position by a more
\* severe one (minor < moderate < serious < critical) never lowers the score.
C7_Monotone ==
  (rendered /\ Len(input) > 0) =>
    \A p \in 1..Len(input) : \A worse \in Worse[input[p].impact] :
      score([input EXCEPT ![p] = Violation(worse)]).v >= scored[1].v

\* a minor violation beside six criticals: making it critical raises the
\* score from 91 to the clamp, 100
C7_Witness ==
  /\ rendered
  /\ scored = <<Num(91)>>
  /\ \E p \in 1..Len(input) :
       /\ input[p].impact = "minor"
       /\ score([input EXCEPT ![p] = Violation("critical")]) = Num(100)

IsRecognized(v) == v.impact \in Recognized

\* C8: siteStatus returns a category for every violation list, and a
\* violation with an unrecognized impact adds nothing to the score: the
\* score is that of the list without such violations.
C8_TotalIgnoresUnrecognized ==
  rendered =>
    /\ status \in {"badge-info", "moz-danger", "moz-warning", "moz-success"}
    /\ Len(input) > 0 =>
         /\ ~scored[1].nan
         /\ scored[1] = score(SelectSeq(input, IsRecognized))

\* a list of recognized and unrecognized impacts, scored below the clamp
C8_Witness ==
  /\ rendered
  /\ CountOf(input, "trivial") >= 2
  /\ CountOf(input, "serious") >= 1
  /\ status = "moz-success"

\* C26: siteStatus returns the info class exactly for the empty violation
\* list; a non-empty list of violations with unrecognized impacts only has
\* the score 0 and the success class.
C26_InfoIffEmpty ==
  rendered =>
    /\ status = "badge-info" <=> Len(input) = 0
    /\ (Len(input) > 0 /\ \A i \in 1..Len(input) : ~IsRecognized(input[i]))
         => (status = "moz-success" /\ scored = <<Num(0)>>)

\* two violations, both with an unrecognized impact
C26_Witness ==
  /\ rendered
  /\ Len(input) = 2
  /\ CountOf(input, "trivial") = 2
  /\ status = "moz-success"

\* vs with its j-th and k-th elements exchanged
Swap(vs, j, k) ==
  [i \in 1..Len(vs) |-> IF i = j THEN vs[k] ELSE IF i = k THEN vs[j] ELSE vs[i]]

\* the permutations of 1..n
Perms(n) == {f \in [1..n -> 1..n] : \A a, b \in 1..n : f[a] = f[b] => a = b}

\* the greatest length for which every permutation of a list is tried
MaxPermuted == 3

\* the site with the violation list vs in the place of its own
withViolations(vs) == [site EXCEPT !.data.violations = vs]

\* C27: a call of siteStatus leaves the site and its violation list as they
\* were, a repeated call returns the class of the first, and the class is
\* the same when two violations of the list change places (for short lists:
\* under every permutation of the list).
C27_PureOrderInsensitive ==
  /\ [](rendered =>
          /\ \A j, k \in 1..Len(input) :
               siteStatus(withViolations(Swap(input, j, k))).class = status
          /\ Len(input) <= MaxPermuted =>
               \A f \in Perms(Len(input)) :
                 siteStatus(withViolations([i \in 1..Len(input) |-> input[f[i]]])).class
                   = status)
  /\ [][site' = site /\ (rendered => status' = status)]_vars

\* a rendered list whose two violations have different impacts
C27_Witness ==
  /\ rendered
  /\ Len(input) = 2
  /\ input[1].impact = "critical"
  /\ input[2].impact = "moderate"
  /\ status = "moz-warning"

(***************************************************************************)
(* Properties of the aggregation (Spec; HistorySpec for the histories)     *)
(***************************************************************************)
\* the collection the Observable emitted to component c
emitted(c) == heap[observer[c].next[1]]

hasEmitted(c) == observer[c].next # <<>>

\* C1: the collection is emitted only after every per-site fetch of the pass
\* has resolved: never emitted while a fetch of the same pass is outstanding.
C1_EmitAfterAllResolved ==
  \A c \in Loads :
    hasEmitted(c) => \A i \in 1..Len(fetch[c]) : fetch[c][i] # "pending"

\* C2: every site whose fetch succeeded is a Site of the collection handed
\* to presentation, and no fetch failure fails the aggregation.
C2_BestEffortInclusion ==
  \A c \in Loads :
    /\ ~observer[c].error
    /\ \A i \in 1..Len(fetch[c]) :
         fetch[c][i] = "ok" =>
           \E k \in 1..Len(heap[sites[c]]) :
             heap[sites[c]][k].name = siteList[c][i].name

\* the instant a last_updated value denotes, in milliseconds
Millis(t) == IF t.type = "number" THEN t.v * 1000 ELSE t.v

\* the same scan, whichever form its last_updated has
SameScan(x, y) ==
  x.violations = y.violations /\ Millis(x.last_updated) = Millis(y.last_updated)

\* every Site of every collection
AllSites == UNION {{heap[a][k] : k \in 1..Len(heap[a])} : a \in 1..Len(heap)}

\* C3: the data of every Site is the last element of the scan sequence the
\* data service returned for the site, and its history is that sequence.
C3_DataIsLastScan ==
  \A s \in AllSites :
    LET r == remote[s.name]
    IN /\ Len(s.history) = Len(r)
       /\ \A j \in 1..Len(r) : SameScan(s.history[j], r[j])
       /\ s.data = s.history[Len(s.history)]
       /\ SameScan(s.data, r[Len(r)])

\* a Site whose history has two different scans
C3_Witness ==
  \E s \in AllSites :
    Len(s.history) = 2 /\ s.history[1].violations # s.history[2].violations

\* C9: when the manifest fetch fails, the failure reaches the caller of the
\* load as an error, no per-site fetch is issued and no collection is made.
C9_ManifestFailureSurfaces ==
  \A c \in Loads :
    listPromise[c] = "rejected" =>
      /\ loadPromise[c] = "rejected"
      /\ fetch[c] = <<>>
      /\ sites[c] = 0

\* the elements of a sequence
Range(q) == {q[i] : i \in 1..Len(q)}

\* a sequence as a multiset
BagOf(q) == [x \in Range(q) |-> Cardinality({i \in 1..Len(q) : q[i] = x})]

\* C10: two invocations of the aggregation with the same descriptor list,
\* the remote data unchanged, yield collections with the same Sites.
C10_Idempotent ==
  \A c \in Loads : \A d \in Loads :
    (c # d /\ hasEmitted(c) /\ hasEmitted(d) /\ siteList[c] = siteList[d])
      => BagOf(emitted(c)) = BagOf(emitted(d))

\* both components got a collection for the same two descriptors, and a
\* response has been processed
C10_Witness ==
  /\ hasEmitted(1) /\ hasEmitted(2)
  /\ siteList[1] = siteList[2] /\ Len(siteList[1]) = 2
  /\ Len(emitted(1)) >= 1

\* component c's call of getSiteData ran a pass of its own: it emitted the
\* array it allocated
ranPass(c) == hasEmitted(c) /\ observer[c].next[1] = sitesLocal[c]

\* component c's call of getSiteData was answered from _siteData
servedFromCache(c) == hasEmitted(c) /\ observer[c].next[1] # sitesLocal[c]

\* every per-site fetch of component c's pass has an outcome
allResolved(c) == \A i \in 1..Len(fetch[c]) : fetch[c][i] # "pending"

\* the per-site fetches of component c's pass that failed
failedFetches(c) == {i \in 1..Len(fetch[c]) : fetch[c][i] = "failed"}

\* C11: in a pass over N sites in which exactly one per-site fetch fails, the
\* collection has, once every fetch has resolved, N-1 entries (the failed
\* site left out) or N entries, whatever the order of the responses.
C11_OmissionConsistency ==
  \A c \in Loads :
    (ranPass(c) /\ allResolved(c) /\ Cardinality(failedFetches(c)) = 1) =>
      Len(emitted(c)) \in {Len(siteList[c]) - 1, Len(siteList[c])}

\* C12: a call answered from _siteData gets the collection of a finished,
\* successful pass: every per-site fetch of the pass that filled the cached
\* array has succeeded.
C12_CacheIsFinishedPass ==
  \A c \in Loads :
    servedFromCache(c) =>
      \A d \in Loads :
        sitesLocal[d] = observer[c].next[1] =>
          \A i \in 1..Len(fetch[d]) : fetch[d][i] = "ok"

\* the GETs of the manifest URL issued for component c
listGets(c) == {k \in 1..Len(requests[c]) : requests[c][k] = ListURL}

\* C13: every call of getSiteList issues exactly one GET of the manifest URL,
\* whether it is pending, resolved or failed and whatever earlier calls did,
\* and it resolves with the body of its response.
C13_OneGetPerCall ==
  \A c \in Loads :
    /\ listPromise[c] = "none" => requests[c] = <<>>
    /\ listPromise[c] # "none" =>
         /\ Cardinality(listGets(c)) = 1
         /\ requests[c][1] = ListURL
    /\ listPromise[c] = "fulfilled" => siteList[c] = manifest

\* a call that failed, followed by a call that resolved with the manifest
C13_Witness ==
  /\ listPromise[1] = "rejected"
  /\ listPromise[2] = "fulfilled"
  /\ Len(siteList[2]) = 2
  /\ Cardinality(listGets(1)) = 1
  /\ Cardinality(listGets(2)) = 1

\* the scans of q are in non-decreasing order of the instants they were taken
NonDecreasing(q) ==
  \A j, k \in 1..Len(q) :
    j < k => Millis(q[j].last_updated) <= Millis(q[k].last_updated)

\* C14 as stated: the history of every Site is non-decreasing in last_updated
\* from its first to its last element.
C14_HistoryNonDecreasing == \A s \in AllSites : NonDecreasing(s.history)

\* C14: the history of every Site has the instants of the service's response
\* in the order of the response, so it is non-decreasing exactly when the
\* response is.
C14_HistoryKeepsResponseOrder ==
  \A s \in AllSites :
    LET r == remote[s.name]
    IN /\ Len(s.history) = Len(r)
       /\ \A j \in 1..Len(r) :
            Millis(s.history[j].last_updated) = r[j].last_updated.v * 1000
       /\ NonDecreasing(s.history) <=> NonDecreasing(r)

\* a Site built from a response whose second scan is older than its first
C14_Witness ==
  \E s \in AllSites :
    /\ Len(s.history) = 2
    /\ Millis(s.history[1].last_updated) > Millis(s.history[2].last_updated)
    /\ ~NonDecreasing(remote[s.name])

\* GraphComponent.ngAfterViewInit: site['history'].forEach(element =>
\* dates.push(this.convertDate(element['last_updated']))): the values the
\* graph's convertDate is applied to for one Site
graphDatesOf(s) == [j \in 1..Len(s.history) |-> s.history[j].last_updated]

\* C15: every element of a Site's history, the last one included, has the
\* last_updated of the response, a number of epoch seconds, in the order of
\* the response, so the graph's convertDate is applied to numbers only.
C15_HistoryKeepsEpochSeconds ==
  \A s \in AllSites :
    LET r == remote[s.name]
    IN /\ Len(s.history) = Len(r)
       /\ \A j \in 1..Len(r) :
            /\ s.history[j].last_updated = r[j].last_updated
            /\ graphDatesOf(s)[j].type = "number"

\* C16: once a collection has been assigned to a component's sites, no step
\* changes the collection or a Site in it.
C16_HandedCollectionUnchanged ==
  [][\A c \in Loads : sites[c] # 0 => heap'[sites[c]] = heap[sites[c]]]_vars

\* the last scan the data service has for the Site being rendered
latestScan == remote[site.name][Len(remote[site.name])]

\* C17: the class rendered for a Site of a collection is the scorer's result
\* on the violations of the latest scan of that very site; a site whose only
\* scan has one critical violation scores 15 and is rendered as success, a
\* site whose only scan has no violation is rendered as info.
C17_EndToEndCategory ==
  rendered =>
    /\ status = siteStatus([data |-> latestScan]).class
    /\ (Len(remote[site.name]) = 1 /\ latestScan.violations = <<Violation("critical")>>)
         => (scored = <<Num(15)>> /\ status = "moz-success")
    /\ (Len(remote[site.name]) = 1 /\ latestScan.violations = <<>>)
         => (status = "badge-info" /\ scored = <<>>)

\* the pass over descriptors a and b has all its responses, a's only scan has
\* one critical violation and b's has none, and the Site of a is rendered
C17_Witness ==
  /\ Len(manifest) = 2 /\ manifest[1].name = "a" /\ manifest[2].name = "b"
  /\ remote["a"] = <<Scan(<<Violation("critical")>>, 1000)>>
  /\ remote["b"] = <<Scan(<<>>, 2000)>>
  /\ fetch[1] = <<"ok", "ok">>
  /\ Len(heap[sites[1]]) = 2
  /\ rendered /\ site.name = "a" /\ status = "moz-success" /\ scored = <<Num(15)>>

\* the per-site GETs issued for component c, in the order they were issued
siteGets(c) == SelectSeq(requests[c], LAMBDA u : u # ListURL)

\* C18: a pass issues exactly one GET per descriptor of the manifest, in the
\* order of the manifest, and whenever a response of the pass has been
\* processed or has failed, all N requests have been issued.
C18_FanOut ==
  \A c \in Loads :
    /\ ranPass(c) =>
         /\ Len(siteGets(c)) = Len(siteList[c])
         /\ \A i \in 1..Len(siteList[c]) :
              siteGets(c)[i] = <<siteDataURL, siteList[c][i].name>>
    /\ \A i \in 1..Len(fetch[c]) :
         fetch[c][i] # "pending" => Len(siteGets(c)) = Len(siteList[c])

\* the second of two requests is answered while the first is outstanding
C18_Witness ==
  /\ ranPass(1)
  /\ Len(siteList[1]) = 2
  /\ Len(siteGets(1)) = 2
  /\ fetch[1] = <<"pending", "ok">>

\* the responses of component c's pass that gave a Site, in the order the
\* subscriber processed them (a response with no scan gives none)
pushes(c) ==
  SelectSeq(processed[c], LAMBDA i : remote[siteList[c][i].name] # <<>>)

\* C19: the Sites of a collection are in the order in which their responses
\* were processed: the k-th Site is the Site of the k-th processed response,
\* whatever the place of its descriptor in the manifest.
C19_CompletionOrder ==
  \A c \in Loads :
    ranPass(c) =>
      /\ Len(emitted(c)) = Len(pushes(c))
      /\ \A k \in 1..Len(pushes(c)) :
           /\ emitted(c)[k].name = siteList[c][pushes(c)[k]].name
           /\ emitted(c)[k].url = siteList[c][pushes(c)[k]].url

\* the response for the second descriptor was processed first, and its Site
\* is the first of the collection
C19_Witness ==
  /\ ranPass(1)
  /\ processed[1] = <<2, 1>>
  /\ Len(emitted(1)) = 2
  /\ emitted(1)[1].name = siteList[1][2].name
  /\ emitted(1)[2].name = siteList[1][1].name
  /\ siteList[1][1].name # siteList[1][2].name

\* the per-site fetches of component c's pass whose response was processed
\* to the end: it arrived and had a scan
successes(c) ==
  {i \in 1..Len(fetch[c]) :
     fetch[c][i] = "ok" /\ remote[siteList[c][i].name] # <<>>}

\* C20: a collection only grows, by one Site at its end in a step, and after
\* k successfully processed responses of the pass it has exactly k entries.
C20_OnlyGrows ==
  /\ [](\A c \in Loads :
          ranPass(c) => Len(emitted(c)) = Cardinality(successes(c)))
  /\ [][\A a \in 1..Len(heap) :
          \/ heap'[a] = heap[a]
          \/ /\ Len(heap'[a]) = Len(heap[a]) + 1
             /\ SubSeq(heap'[a], 1, Len(heap[a])) = heap[a]]_vars

\* both responses of a pass over two sites were processed, in any order, and
\* the collection has both Sites
C20_Witness ==
  /\ ranPass(1)
  /\ Cardinality(successes(1)) = 2
  /\ Len(emitted(1)) = 2

\* C21: the k-th Site of a collection has the name and url of the descriptor
\* whose request gave the k-th processed response, that request was issued
\* for that descriptor's name, and the Site's history and data are the
\* response to it, whatever the order of the responses.
C21_Pairing ==
  \A c \in Loads :
    ranPass(c) =>
      \A k \in 1..Len(emitted(c)) :
        LET i == pushes(c)[k]
            d == siteList[c][i]
            s == emitted(c)[k]
            r == remote[siteGets(c)[i][2]]
        IN /\ s.name = d.name /\ s.url = d.url
           /\ siteGets(c)[i] = <<siteDataURL, d.name>>
           /\ Len(s.history) = Len(r)
           /\ \A j \in 1..Len(r) : SameScan(s.history[j], r[j])
           /\ SameScan(s.data, r[Len(r)])

\* two sites with different scans, the second answered first
C21_Witness ==
  /\ ranPass(1)
  /\ Len(siteList[1]) = 2
  /\ siteList[1][1].name # siteList[1][2].name
  /\ remote[siteList[1][1].name] # remote[siteList[1][2].name]
  /\ processed[1] = <<2, 1>>
  /\ Len(emitted(1)) = 2
  /\ emitted(1)[1].name = siteList[1][2].name
  /\ emitted(1)[1].data.violations # emitted(1)[2].data.violations

\* the data service has at least one scan for every site of component c's list
allHaveScans(c) ==
  \A i \in 1..Len(siteList[c]) : remote[siteList[c][i].name] # <<>>

\* the descriptors of the Sites of a collection
descriptorsOf(col) == [k \in 1..Len(col) |-> Descriptor(col[k].name, col[k].url)]

\* the collection component c holds has exactly one Site per descriptor of
\* its list
complete(c) ==
  /\ sites[c] # 0
  /\ Len(heap[sites[c]]) = Len(siteList[c])
  /\ BagOf(descriptorsOf(heap[sites[c]])) = BagOf(siteList[c])

\* C22: when the manifest has loaded, the pass has started and the data
\* service has scans for every site, then eventually a per-site fetch has
\* failed or the collection the component holds has exactly one Site per
\* descriptor.
C22_EventuallyComplete ==
  \A c \in Loads :
    (ranPass(c) /\ allHaveScans(c)) ~> (failedFetches(c) # {} \/ complete(c))

\* the collection was handed over empty and now has the Sites of both
\* descriptors
C22_Witness ==
  /\ ranPass(1)
  /\ Len(siteList[1]) = 2
  /\ allHaveScans(1)
  /\ fetch[1] = <<"ok", "ok">>
  /\ complete(1)

\* no two descriptors of the list have the same name
uniqueNames(list) ==
  \A i, j \in 1..Len(list) : list[i].name = list[j].name => i = j

\* C23: in every state of a pass the collection has at most as many Sites as
\* the manifest has descriptors and, when the names of the descriptors are
\* unique, at most one Site for each of them.
C23_AtMostOnePerDescriptor ==
  \A c \in Loads :
    ranPass(c) =>
      /\ Len(emitted(c)) <= Len(siteList[c])
      /\ uniqueNames(siteList[c]) =>
           \A i \in 1..Len(siteList[c]) :
             Cardinality({k \in 1..Len(emitted(c)) :
                            emitted(c)[k].name = siteList[c][i].name}) <= 1

\* a full collection for two descriptors with different names
C23_Witness ==
  /\ ranPass(1)
  /\ Len(siteList[1]) = 2
  /\ uniqueNames(siteList[1])
  /\ Len(emitted(1)) = 2
  /\ emitted(1)[1].name # emitted(1)[2].name

\* the per-site fetches of component c's pass answered with an empty array
emptyAnswers(c) ==
  {i \in 1..Len(fetch[c]) :
     fetch[c][i] = "ok" /\ remote[siteList[c][i].name] = <<>>}

\* C24: a per-site fetch answered with an empty scan array throws a TypeError
\* out of its callback and gives no Site, and the step that processes it
\* leaves every collection, with the Sites of the other descriptors, as it
\* was.
C24_EmptyAnswerAddsNothing ==
  /\ [](\A c \in Loads : \A i \in emptyAnswers(c) :
          /\ [load |-> c, index |-> i, error |-> "TypeError"] \in uncaught
          /\ \A k \in 1..Len(emitted(c)) :
               emitted(c)[k].name # siteList[c][i].name)
  /\ [][\A c \in Loads : \A i \in 1..Len(fetch[c]) :
          (/\ fetch[c][i] = "pending"
           /\ fetch'[c][i] = "ok"
           /\ remote[siteList[c][i].name] = <<>>) => heap' = heap]_vars

\* the Site of the second descriptor was added first, then the empty answer
\* for the first descriptor was processed: the collection still has that Site
C24_Witness ==
  /\ ranPass(1)
  /\ Len(siteList[1]) = 2
  /\ processed[1] = <<2, 1>>
  /\ emptyAnswers(1) = {1}
  /\ Len(emitted(1)) = 1
  /\ emitted(1)[1].name = siteList[1][2].name

\* C25: a call of getSiteData made when _siteData is set is sent that cached
\* array once and the completion, issues no per-site GET and leaves the
\* cache as it is, whatever list it was given; so a call that was not a pass
\* of its own holds the cached array and has no request.
C25_CacheServesLaterCalls ==
  /\ [](\A c \in Loads :
          servedFromCache(c) =>
            /\ observer[c] = [next |-> <<_siteData>>, complete |-> TRUE,
                               error |-> FALSE]
            /\ sites[c] = _siteData
            /\ siteGets(c) = <<>>
            /\ fetch[c] = <<>>)
  /\ [][\A c \in Loads :
          (_siteData # 0 /\ ~hasEmitted(c) /\ hasEmitted(c)') =>
            /\ observer'[c] = [next |-> <<_siteData>>, complete |-> TRUE,
                                error |-> FALSE]
            /\ requests'[c] = requests[c]
            /\ _siteData' = _siteData]_vars

\* the second call was given another list than the first and was sent the
\* collection of the first, which has the Site of the first list
C25_Witness ==
  /\ ranPass(1)
  /\ servedFromCache(2)
  /\ siteList[2] # siteList[1]
  /\ Len(siteList[2]) = 1
  /\ Len(emitted(2)) = 1
  /\ emitted(2)[1].name = siteList[1][1].name
  /\ emitted(2)[1].name # siteList[2][1].name

(***************************************************************************)
(* Properties of ViolationComponent (checked under ViolationSpec)          *)
(***************************************************************************)
\* the {target, html} part of one relatedNodes element
TargetHtml(r) == [target |-> r.target, html |-> r.html]

\* C28: after ViolationComponent.ngOnInit a node with a non-empty 'any' has
\* as relatedNodes the {target, html} parts of the relatedNodes of the last
\* entry of 'any' and of no other entry, and a node with an empty 'any' has
\* no relatedNodes.
C28_RelatedNodesOfLastAny ==
  initialised =>
    \A n \in 1..Len(violation.nodes) :
      LET node == violation.nodes[n]
          m == Len(node.any)
      IN IF m = 0
         THEN node.relatedNodes = <<>>
         ELSE LET last == node.any[m].relatedNodes
              IN /\ Len(node.relatedNodes) = 1
                 /\ Len(node.relatedNodes[1]) = Len(last)
                 /\ \A k \in 1..Len(last) :
                      node.relatedNodes[1][k] = TargetHtml(last[k])

\* a node whose two 'any' entries have different relatedNodes, next to a node
\* with an empty 'any'
C28_Witness ==
  /\ initialised
  /\ Len(violation.nodes) = 2
  /\ Len(violation.nodes[1].any) = 2
  /\ violation.nodes[1].any[1].relatedNodes = <<Related("t1", "h1", "x1")>>
  /\ violation.nodes[1].any[2].relatedNodes = <<Related("t2", "h2", "x2")>>
  /\ violation.nodes[1].relatedNodes = <<<<[target |-> "t2", html |-> "h2"]>>>>
  /\ violation.nodes[2].any = <<>>
  /\ violation.nodes[2].relatedNodes = <<>>
====
